---- MODULE Spec2Model ----
(***************************************************************************)
(* Model of src/asterisk_server.py: the threaded HTTP gateway              *)
(* (ThreadedHTTPServer + SecureAsteriskHandler) with its conversion pool.  *)
(*                                                                         *)
(* One handler thread per accepted connection (ThreadingMixIn), named      *)
(* "Thread-N (process_request_thread)" by the threading module's counter;  *)
(* a ThreadPoolExecutor of max_workers workers runs                        *)
(* convert_audio_with_cleanup; the filesystem is a function from path      *)
(* strings to file contents.                                               *)
(***************************************************************************)
EXTENDS Integers, Sequences, FiniteSets, TLC

(***************************************************************************)
(* Program constants                                                       *)
(***************************************************************************)
max_workers == 5

\* ThreadedHTTPServer.max_children
max_children == 50

max_file_size == 52428800

recordings_dir == "/var/spool/asterisk/recording"

tts_dir == "/tmp/asterisk/tts"

stt_dir == "/tmp/asterisk/stt"

allowed_extensions == {".wav", ".mp3", ".ogg"}

(***************************************************************************)
(* Bounds of the model                                                     *)
(***************************************************************************)
\* Connections accepted in a behaviour of Spec.
MaxRequests == 2

\* Connections accepted in a behaviour of SpecRoundTrip.
MaxRoundTripRequests == 3

\* Connections accepted in a behaviour of SpecAuth.
MaxAuthRequests == 2

\* Connections accepted in a behaviour of SpecRoute.
MaxRouteRequests == 2

\* Connections accepted in a behaviour of SpecDelete.
MaxDeleteRequests == 2

\* Connections accepted in a behaviour of SpecSerial.
MaxSerialRequests == 3

\* Connections accepted in a behaviour of SpecValidate.
MaxValidateRequests == 2

\* Connections accepted in a behaviour of SpecUpload.
MaxUploadRequests == 2

\* Uploads beyond the pool's size in a behaviour of SpecPool.
ExtraUploads == 1

\* Connections accepted in a behaviour of SpecPool.
PoolRequests == max_workers + ExtraUploads

\* Connections beyond max_children in a behaviour of SpecConn.
ExtraConnections == 1

\* Connections accepted in a behaviour of SpecConn.
MaxConnections == max_children + ExtraConnections

\* Requests other than the uploads in a behaviour of SpecIsolation.
MaxLightRequests == 1

\* Connections accepted in a behaviour of SpecStrategies.
MaxStrategyRequests == 2

\* Connections accepted in a behaviour of SpecAbandon.
MaxAbandonRequests == 2

\* Connections accepted in a behaviour of SpecKeys.
MaxKeyRequests == 3

\* Connections accepted in a behaviour of SpecIsolation.
IsolationRequests == PoolRequests + MaxLightRequests

\* Handler threads the state has room for, where no specification says
\* otherwise.
MaxThreads == PoolRequests

None == "<none>"

(***************************************************************************)
(* Strings, as Python's str methods compute them                           *)
(***************************************************************************)
CharAt(s, i) == SubSeq(s, i, i)

\* str.startswith(prefix)
startswith(s, prefix) ==
    /\ Len(s) >= Len(prefix)
    /\ SubSeq(s, 1, Len(prefix)) = prefix

\* s[n:]
DropPrefix(s, n) == SubSeq(s, n + 1, Len(s))

\* str.rfind(c) for a one-character c, 1-based; 0 when absent
rfind(s, c) ==
    LET hits == {i \in 1..Len(s) : CharAt(s, i) = c}
    IN  IF hits = {} THEN 0 ELSE CHOOSE i \in hits : \A k \in hits : k <= i

\* str.lstrip('/')
RECURSIVE lstrip_slash(_)
lstrip_slash(s) ==
    IF Len(s) > 0 /\ CharAt(s, 1) = "/" THEN lstrip_slash(DropPrefix(s, 1)) ELSE s

\* os.path.basename
basename(p) == DropPrefix(p, rfind(p, "/"))

\* os.path.join(directory, name) for a relative name
path_join(directory, name) == directory \o "/" \o name

UpperChars == <<"A","B","C","D","E","F","G","H","I","J","K","L","M",
                "N","O","P","Q","R","S","T","U","V","W","X","Y","Z">>

LowerChars == <<"a","b","c","d","e","f","g","h","i","j","k","l","m",
                "n","o","p","q","r","s","t","u","v","w","x","y","z">>

DigitChars == {"0","1","2","3","4","5","6","7","8","9"}

\* Characters outside ASCII that Unicode classes as letters: n with tilde
\* (U+00F1) and e with acute accent (U+00E9). The strings of the model are
\* ASCII, so each is written as an ASCII character that no filename, path
\* or header of the model otherwise contains.
n_tilde == "~"

e_acute == "^"

OtherLetterChars == {n_tilde, e_acute}

Range(f) == {f[i] : i \in DOMAIN f}

lower_char(c) ==
    IF c \in Range(UpperChars)
    THEN LowerChars[CHOOSE i \in 1..26 : UpperChars[i] = c]
    ELSE c

\* str.lower()
RECURSIVE lower_from(_, _)
lower_from(s, i) ==
    IF i > Len(s) THEN "" ELSE lower_char(CharAt(s, i)) \o lower_from(s, i + 1)

lower(s) == lower_from(s, 1)

\* str.replace(c, '') for a one-character c
RECURSIVE remove_char_from(_, _, _)
remove_char_from(s, c, i) ==
    IF i > Len(s) THEN ""
    ELSE (IF CharAt(s, i) = c THEN "" ELSE CharAt(s, i)) \o remove_char_from(s, c, i + 1)

remove_char(s, c) == remove_char_from(s, c, 1)

\* str.isalnum(): non-empty and every character a letter or a digit, as
\* Unicode classes them
isalnum(s) ==
    /\ Len(s) > 0
    /\ \A i \in 1..Len(s) :
          CharAt(s, i) \in Range(UpperChars) \cup Range(LowerChars) \cup DigitChars
                             \cup OtherLetterChars

\* os.path.splitext(p)[1]: the extension starts at the last dot of the last
\* path component, unless only dots precede it there
splitext_ext(p) ==
    LET sepIndex == rfind(p, "/")
        dotIndex == rfind(p, ".")
    IN  IF dotIndex > sepIndex
           /\ \E k \in (sepIndex + 1)..(dotIndex - 1) : CharAt(p, k) # "."
        THEN DropPrefix(p, dotIndex - 1)
        ELSE ""

(***************************************************************************)
(* Files and the filesystem                                                *)
(***************************************************************************)
\* A file's content: the uploaded bytes as sent ("raw"), the tool's complete
\* 8000 Hz mono output ("pcm8k"), or what a tool has written so far
\* ("partial").
Raw(b) == [fmt |-> "raw", data |-> b]

Converted(c) == [fmt |-> "pcm8k", data |-> c.data]

PartialOutput(c) == [fmt |-> "partial", data |-> c.data]

\* open(path, 'wb').write(c), or a tool writing its output file
WriteFile(f, p, c) == [q \in (DOMAIN f) \cup {p} |-> IF q = p THEN c ELSE f[q]]

\* os.remove(path)
RemoveFile(f, p) == [q \in (DOMAIN f) \ {p} |-> f[q]]

(***************************************************************************)
(* State                                                                   *)
(***************************************************************************)
VARIABLES
    fs,              \* the filesystem: path |-> content, for the files that exist
    api_keys_file,   \* /opt/asterisk-services/api_keys.txt: whether it exists, its lines
    installed,       \* the conversion tools found on PATH
    faults,          \* what the environment may do: "slow_client", "io_error"
    thread_counter,  \* threading's counter: handler threads started so far
    pc,              \* per handler thread: where it is
    req,             \* per handler thread: the request it serves
    valid_api_keys,  \* per handler: self.valid_api_keys
    default_key,     \* per handler: the key load_api_keys generated, if it did
    resp,            \* per handler thread: the response sent
    work_queue,      \* conversion_pool._work_queue: submitted work items, FIFO
    future,          \* per upload: state of the Future returned by submit
    jpc,             \* per job: the strategy convert_audio_with_cleanup is at
    result,          \* per job: the (success, message) pair it returned
    worker_of,       \* per job: the pool worker executing it (0: none)
    execs,           \* per job: how many times a worker began executing it
    tried,           \* per job: the strategies it has attempted, in order
    acked            \* per filename: the payload a download is owed, or Contended

vars == <<fs, api_keys_file, installed, faults, thread_counter, pc, req, valid_api_keys, default_key,
          resp, work_queue, future, jpc, result, worker_of, execs, tried, acked>>

handler_vars == <<pc, req, valid_api_keys, default_key, resp, thread_counter>>

pool_vars == <<work_queue, future, jpc, result, worker_of, execs, tried>>

env_vars == <<api_keys_file, installed, faults>>

Workers == 1..max_workers

\* The handler threads the state has room for.
Threads == DOMAIN pc

\* Thread.__init__ names the n-th unnamed thread after its target
\* (ThreadingMixIn.process_request starts one per connection).
thread_name(n) == "Thread-" \o ToString(n) \o " (process_request_thread)"

Response(status, challenge, body) ==
    [status |-> status, www_authenticate |-> challenge, body |-> body]

(***************************************************************************)
(* Credentials                                                             *)
(***************************************************************************)
\* The key file with the given lines, and the state with no key file.
KeyFile(lines) == [exists |-> TRUE, lines |-> lines]

NoKeyFile == [exists |-> FALSE, lines |-> <<>>]

\* The keys load_api_keys may generate when it finds no key file:
\* 'asterisk-api-' and 16 hex digits of the md5 of the clock reading, here
\* one digit. Two handlers reading the clock get the same key or two keys.
DefaultKeys == {"asterisk-api-1", "asterisk-api-2"}

\* What load_api_keys writes to the key file it creates (the second
\* comment line in ASCII).
default_key_file(key) ==
    KeyFile(<<"# API Keys para servidor Asterisk", "# Formato: una clave por linea", key>>)

\* load_api_keys, with the key file present: one key per line that is
\* neither empty nor a comment
load_api_keys(lines) ==
    {lines[i] : i \in {k \in DOMAIN lines : lines[k] # "" /\ ~startswith(lines[k], "#")}}

\* str.find(' '), 1-based; 0 when absent
find_space(s) ==
    LET hits == {i \in 1..Len(s) : CharAt(s, i) = " "}
    IN  IF hits = {} THEN 0 ELSE CHOOSE i \in hits : \A k \in hits : i <= k

authenticate_request(auth_header, keys) ==
    IF auth_header = None \/ auth_header = "" THEN FALSE
    ELSE LET sp == find_space(auth_header)
         IN  IF sp = 0 THEN FALSE
             ELSE LET scheme  == SubSeq(auth_header, 1, sp - 1)
                      api_key == DropPrefix(auth_header, sp)
                  IN  IF lower(scheme) \notin {"bearer", "apikey"} THEN FALSE
                      ELSE api_key \in keys

NoBody == [kind |-> "none"]

send_auth_error == Response(401, TRUE, NoBody)

send_error(code) == Response(code, FALSE, NoBody)

(***************************************************************************)
(* Path Router and Upload Validator                                        *)
(***************************************************************************)
\* A router that does not know the "papeleta_" prefix.
get_target_directory_no_papeleta(filename) ==
    IF startswith(filename, "tts_") THEN tts_dir
    ELSE IF startswith(filename, "placa_") THEN stt_dir
    ELSE recordings_dir

get_target_directory(filename) ==
    IF startswith(filename, "tts_") THEN tts_dir
    ELSE IF startswith(filename, "placa_") \/ startswith(filename, "papeleta_") THEN stt_dir
    ELSE recordings_dir

\* (each intermediate string is bound once it is computed)
validate_file_upload(filename, content_length) ==
    IF content_length > max_file_size THEN FALSE
    ELSE IF \E lowered \in {lower(filename)} :
               splitext_ext(lowered) \notin allowed_extensions THEN FALSE
    ELSE \E a \in {remove_char(filename, "_")} :
         \E b \in {remove_char(a, "-")} :
         \E c \in {remove_char(b, ".")} : isalnum(c)

\* A temp name without the thread's name.
temp_filepath_unsalted(n, filename) ==
    path_join(get_target_directory(filename), "temp_" \o filename)

\* handle_upload_async: temp_{thread_name}_{filename} under the target directory
temp_filepath(n, filename) ==
    path_join(get_target_directory(filename),
              "temp_" \o thread_name(n) \o "_" \o filename)

final_filepath(filename) == path_join(get_target_directory(filename), filename)

\* The Filename header of handler t's request; the default is synthesized
\* from the clock.
filename_of(r) ==
    IF r.filename = None \/ r.filename = "" THEN "upload_1762282000.wav" ELSE r.filename

TempOf(t) == temp_filepath(t, filename_of(req[t]))

FinalOf(t) == final_filepath(filename_of(req[t]))

(***************************************************************************)
(* Requests                                                                *)
(***************************************************************************)
Request(method, path, auth, filename, content_length, body) ==
    [method |-> method, path |-> path, auth |-> auth, filename |-> filename,
     content_length |-> content_length, body |-> body]

NoRequest == Request(None, None, None, None, 0, None)

NoResponse == Response(0, FALSE, NoBody)

NoResult == [success |-> FALSE, message |-> None]

GoodAuth == "Bearer k1"

Upload(filename, body) == Request("POST", "/upload", GoodAuth, filename, 4, body)

Download(path) == Request("GET", path, GoodAuth, None, 0, None)

Delete(path) == Request("DELETE", path, GoodAuth, None, 0, None)

\* The requests a client of Spec sends.
Requests ==
    { Upload("plain.wav", "b1"), Upload("plain.wav", "b2"),
      Download("/plain.wav"), Delete("/plain.wav") }

\* The requests a client of SpecKeys sends: each carries a key the server
\* may have generated and printed.
KeyRequests ==
    { Request("GET", path, "Bearer " \o key, None, 0, None) :
        path \in {"/plain.wav", "/status"}, key \in DefaultKeys }

\* The requests a client of SpecStrategies sends.
StrategyRequests == { Upload("plain.wav", "b1"), Upload("tts_x.wav", "b2") }

\* The requests a client of SpecRoundTrip sends.
RoundTripRequests ==
    { Upload("plain.wav", "b1"), Upload("plain.wav", "b2"), Download("/plain.wav") }

\* The requests a client of SpecAuth sends: every method, with and without
\* a good Authorization header.
AuthRequests ==
    { Upload("plain.wav", "b1"),
      Request("POST", "/upload", "Bearer wrong", "plain.wav", 4, "b1"),
      Request("POST", "/upload", "Bearerk1", "plain.wav", 4, "b1"),
      Request("POST", "/status", "ApiKey k1", None, 0, None),
      Request("POST", "/other", "APIKEY k1", None, 0, None),
      Download("/plain.wav"),
      Download("/status"),
      Request("GET", "/plain.wav", None, None, 0, None),
      Request("GET", "/status", "Basic k1", None, 0, None),
      Delete("/plain.wav"),
      Request("DELETE", "/plain.wav", "Basic k1", None, 0, None),
      Request("DELETE", "/plain.wav", None, None, 0, None),
      Request("HEAD", "/plain.wav", GoodAuth, None, 0, None),
      Request("HEAD", "/plain.wav", None, None, 0, None) }

\* The filenames a client of SpecRoute uploads.
RouteFilenames ==
    { "tts_x.wav", "placa_y.wav", "papeleta_z.wav", "plain.wav",
      "tts.wav", "TTS_x.wav", "xtts_a.wav", "placa.mp3", "papeleta_.ogg", None }

RouteRequests ==
    { Upload(f, "b1") : f \in RouteFilenames }
    \cup { Download(path_join(d, f)) : d \in {"", "/tts", "/stt"},
                                       f \in RouteFilenames \ {None} }

\* The requests a client of SpecDelete sends: deletions by every kind of
\* path, and an upload into an ephemeral area.
DeleteRequests ==
    { Delete("/plain.wav"), Delete("/tts_x.wav"), Delete("/tts/tts_x.wav"),
      Delete("/stt/placa_y.wav"), Delete("/tts/plain.wav"), Delete("/"),
      Upload("tts_x.wav", "b1") }

\* The requests a client of SpecSerial sends, one after the other.
SerialRequests == { Delete("/plain.wav"), Upload("plain.wav", "b1") }

\* The filenames a client of SpecValidate uploads.
ValidateFilenames ==
    { "a.wav", "A.WAV", "a.Mp3", "a.ogg", "a_b-c.1.wav", "_.wav",
      "a.txt", "a", ".wav", "a.wav.exe", "a b.wav", "a/b.wav", "a\tb.wav",
      n_tilde \o ".wav", e_acute \o ".ogg", None }

\* The requests a client of SpecValidate sends: each filename with a small
\* declared length, and one filename with the lengths around the limits (a
\* request without Content-Length is read as declaring 0).
ValidateRequests ==
    { Upload(f, "b1") : f \in ValidateFilenames }
    \cup { Request("POST", "/upload", GoodAuth, "a.wav", n, "b1") :
              n \in {0 - 1, 0, 1, max_file_size, max_file_size + 1} }

\* The requests of SpecIsolation that are no uploads.
LightRequests ==
    { Download("/plain.wav"), Download("/status"), Download("/tts/tts_x.wav"),
      Delete("/plain.wav"), Request("POST", "/status", GoodAuth, None, 0, None) }

\* The requests a client of SpecPool sends.
PoolUploads == { Upload("plain.wav", "b1") }

\* The filename a request is about.
named_file(r) ==
    IF r.method = "POST" THEN filename_of(r) ELSE basename(lstrip_slash(r.path))

\* A request about the filename is being handled.
Active(filename) ==
    \E u \in Threads : pc[u] \notin {"unborn", "done"} /\ named_file(req[u]) = filename

\* History, per filename: the payload of an upload answered 200 that was
\* received while no request about the name was being handled, as long as
\* no upload or DELETE of the name has been received since; Contended from
\* the moment a request about the name is received while another is being
\* handled, until one is received while none is.
Contended == "<contended>"

Record(h, filename, body) ==
    [f \in (DOMAIN h) \cup {filename} |-> IF f = filename THEN body ELSE h[f]]

Forget(h, filename) == [f \in (DOMAIN h) \ {filename} |-> h[f]]

IsContended(h, filename) == filename \in DOMAIN h /\ h[filename] = Contended

Received(h, r) ==
    LET f == named_file(r)
    IN  IF Active(f) THEN Record(h, f, Contended)
        ELSE IF r.method = "GET" /\ ~IsContended(h, f) THEN h
        ELSE Forget(h, f)

(***************************************************************************)
(* Connection Acceptor                                                     *)
(***************************************************************************)
\* ThreadingMixIn.process_request: a new thread per connection, which
\* constructs the handler. SecureAsteriskHandler.__init__ loads the keys
\* from the key file, or, finding none, generates a key and goes on to
\* create the file.
\* A `spaced` client opens its next connection once every earlier request
\* has been answered or handed to the pool.
Accept(t, menu, limit, spaced) ==
    /\ t = thread_counter + 1
    /\ t <= limit
    /\ pc[t] = "unborn"
    /\ spaced => \A u \in Threads : pc[u] \in {"unborn", "done", "awaiting"}
    /\ \E r \in menu : req' = [req EXCEPT ![t] = r]
    /\ thread_counter' = t
    /\ IF api_keys_file.exists
       THEN /\ valid_api_keys' =
                   [valid_api_keys EXCEPT ![t] = load_api_keys(api_keys_file.lines)]
            /\ pc' = [pc EXCEPT ![t] = "accepted"]
            /\ UNCHANGED default_key
       ELSE /\ \E key \in DefaultKeys : default_key' = [default_key EXCEPT ![t] = key]
            /\ pc' = [pc EXCEPT ![t] = "keys_absent"]
            /\ UNCHANGED valid_api_keys
    /\ acked' = Received(acked, req'[t])
    /\ UNCHANGED <<fs, resp, pool_vars, env_vars>>

\* load_api_keys, having found no key file: open(config_file, 'w') creates
\* the file, or empties the one another handler has created since.
create_keys_open(t) ==
    /\ pc[t] = "keys_absent"
    /\ api_keys_file' = KeyFile(<<>>)
    /\ pc' = [pc EXCEPT ![t] = "keys_opened"]
    /\ UNCHANGED <<fs, req, valid_api_keys, default_key, resp, thread_counter, pool_vars,
                   installed, faults, acked>>

\* The with block ends: the three buffered lines are written at the start
\* of the file, and the handler's key set is the key it generated.
create_keys_write(t) ==
    /\ pc[t] = "keys_opened"
    /\ api_keys_file' = default_key_file(default_key[t])
    /\ valid_api_keys' = [valid_api_keys EXCEPT ![t] = {default_key[t]}]
    /\ pc' = [pc EXCEPT ![t] = "accepted"]
    /\ UNCHANGED <<fs, req, default_key, resp, thread_counter, pool_vars, installed, faults,
                   acked>>

Authenticated(t) == authenticate_request(req[t].auth, valid_api_keys[t])

Reply(t, r) ==
    /\ resp' = [resp EXCEPT ![t] = r]
    /\ pc' = [pc EXCEPT ![t] = "done"]

(***************************************************************************)
(* GET, HEAD                                                               *)
(***************************************************************************)
\* count_files(directory): the *.wav names directly in the directory
count_files(directory) ==
    Cardinality({p \in DOMAIN fs :
        /\ startswith(p, directory \o "/")
        /\ rfind(p, "/") = Len(directory) + 1
        /\ Len(p) >= Len(directory) + 5
        /\ DropPrefix(p, Len(p) - 4) = ".wav"})

handle_status ==
    Response(200, FALSE,
        [kind |-> "status", conversion_pool_queue |-> Len(work_queue),
         files_count |-> <<count_files(recordings_dir), count_files(tts_dir),
                           count_files(stt_dir)>>])

\* The file a GET path names: /tts/<name>, /stt/<name>, or /<name> in
\* recordings_dir; None when the filename is empty.
download_path(path) ==
    IF startswith(path, "/tts/") THEN path_join(tts_dir, basename(DropPrefix(path, 5)))
    ELSE IF startswith(path, "/stt/") THEN path_join(stt_dir, basename(DropPrefix(path, 5)))
    ELSE IF basename(lstrip_slash(path)) = "" THEN None
    ELSE path_join(recordings_dir, basename(lstrip_slash(path)))

\* do_GET up to the os.path.exists check
\* A GET that is served by a worker of the conversion pool.
do_GET_pooled(t) ==
    /\ pc[t] = "accepted"
    /\ req[t].method = "GET"
    /\ \E w \in Workers : \A j \in Threads : worker_of[j] # w
    /\ IF ~Authenticated(t) THEN Reply(t, send_auth_error)
       ELSE IF req[t].path = "/status" THEN Reply(t, handle_status)
       ELSE IF download_path(req[t].path) = None THEN Reply(t, send_error(400))
       ELSE IF download_path(req[t].path) \notin DOMAIN fs THEN Reply(t, send_error(404))
       ELSE /\ pc' = [pc EXCEPT ![t] = "serve_file"]
            /\ UNCHANGED resp
    /\ UNCHANGED <<fs, req, valid_api_keys, default_key, thread_counter, pool_vars, env_vars, acked>>

do_GET(t) ==
    /\ pc[t] = "accepted"
    /\ req[t].method = "GET"
    /\ IF ~Authenticated(t) THEN Reply(t, send_auth_error)
       ELSE IF req[t].path = "/status" THEN Reply(t, handle_status)
       ELSE IF download_path(req[t].path) = None THEN Reply(t, send_error(400))
       ELSE IF download_path(req[t].path) \notin DOMAIN fs THEN Reply(t, send_error(404))
       ELSE /\ pc' = [pc EXCEPT ![t] = "serve_file"]
            /\ UNCHANGED resp
    /\ UNCHANGED <<fs, req, valid_api_keys, default_key, thread_counter, pool_vars, env_vars, acked>>

\* serve_file: open, read, send; a file removed since the check raises, and
\* the handler answers 500
serve_file(t) ==
    /\ pc[t] = "serve_file"
    /\ LET file_path == download_path(req[t].path)
       IN  IF file_path \in DOMAIN fs
           THEN Reply(t, Response(200, FALSE, [kind |-> "file", content |-> fs[file_path]]))
           ELSE Reply(t, send_error(500))
    /\ UNCHANGED <<fs, req, valid_api_keys, default_key, thread_counter, pool_vars, env_vars, acked>>

\* SimpleHTTPRequestHandler.do_HEAD, which the handler inherits unchanged:
\* the headers (length, modification time) of the file under the served
\* directory, recordings_dir
do_HEAD(t) ==
    /\ pc[t] = "accepted"
    /\ req[t].method = "HEAD"
    /\ LET file_path == recordings_dir \o req[t].path
       IN  IF file_path \in DOMAIN fs
           THEN Reply(t, Response(200, FALSE, [kind |-> "headers", content |-> fs[file_path]]))
           ELSE Reply(t, send_error(404))
    /\ UNCHANGED <<fs, req, valid_api_keys, default_key, thread_counter, pool_vars, env_vars, acked>>

(***************************************************************************)
(* DELETE                                                                  *)
(***************************************************************************)
\* A deletion that looks the name up in the area its prefix names.
delete_path_routed(path) ==
    IF basename(lstrip_slash(path)) = "" THEN None
    ELSE path_join(get_target_directory(basename(lstrip_slash(path))),
                   basename(lstrip_slash(path)))

delete_path(path) ==
    IF basename(lstrip_slash(path)) = "" THEN None
    ELSE path_join(recordings_dir, basename(lstrip_slash(path)))

\* do_DELETE up to the os.path.exists check
do_DELETE(t) ==
    /\ pc[t] = "accepted"
    /\ req[t].method = "DELETE"
    /\ IF ~Authenticated(t) THEN Reply(t, send_auth_error)
       ELSE IF delete_path(req[t].path) = None THEN Reply(t, send_error(400))
       ELSE IF delete_path(req[t].path) \notin DOMAIN fs THEN Reply(t, send_error(404))
       ELSE /\ pc' = [pc EXCEPT ![t] = "remove"]
            /\ UNCHANGED resp
    /\ UNCHANGED <<fs, req, valid_api_keys, default_key, thread_counter, pool_vars, env_vars, acked>>

\* os.remove and the 200; a file removed since the check raises, and the
\* handler answers 500
delete_remove(t) ==
    /\ pc[t] = "remove"
    /\ LET file_path == delete_path(req[t].path)
       IN  IF file_path \in DOMAIN fs
           THEN /\ fs' = RemoveFile(fs, file_path)
                /\ Reply(t, Response(200, FALSE, [kind |-> "deleted"]))
           ELSE /\ UNCHANGED fs
                /\ Reply(t, send_error(500))
    /\ UNCHANGED <<req, valid_api_keys, default_key, thread_counter, pool_vars, env_vars, acked>>

(***************************************************************************)
(* POST: handle_upload_async                                               *)
(***************************************************************************)
\* An upload handler that goes on to read the payload without validating.
do_POST_unvalidated(t) ==
    /\ pc[t] = "accepted"
    /\ req[t].method = "POST"
    /\ IF ~Authenticated(t) THEN Reply(t, send_auth_error)
       ELSE IF req[t].path = "/status" THEN Reply(t, handle_status)
       ELSE IF req[t].path \notin {"/upload", "/tts", "/stt"} THEN Reply(t, send_error(404))
       ELSE IF req[t].content_length = 0 THEN Reply(t, send_error(400))
       ELSE /\ pc' = [pc EXCEPT ![t] = "reading"]
            /\ UNCHANGED resp
    /\ UNCHANGED <<fs, req, valid_api_keys, default_key, thread_counter, pool_vars, env_vars, acked>>

\* do_POST and handle_upload_async up to rfile.read: authentication, the
\* endpoint, Content-Length, validation
do_POST(t) ==
    /\ pc[t] = "accepted"
    /\ req[t].method = "POST"
    /\ IF ~Authenticated(t) THEN Reply(t, send_auth_error)
       ELSE IF req[t].path = "/status" THEN Reply(t, handle_status)
       ELSE IF req[t].path \notin {"/upload", "/tts", "/stt"} THEN Reply(t, send_error(404))
       ELSE IF req[t].content_length = 0 THEN Reply(t, send_error(400))
       ELSE IF ~validate_file_upload(filename_of(req[t]), req[t].content_length)
            THEN Reply(t, send_error(400))
       ELSE /\ pc' = [pc EXCEPT ![t] = "reading"]
            /\ UNCHANGED resp
    /\ UNCHANGED <<fs, req, valid_api_keys, default_key, thread_counter, pool_vars, env_vars, acked>>

\* A queue that holds one work item and drops what it cannot hold.
submit_bounded(q, j) == IF Len(q) >= 1 THEN q ELSE Append(q, j)

\* conversion_pool.submit: the work item joins the pool's queue
submit(q, j) == Append(q, j)

\* upload_timeout seconds pass while rfile.read is still blocked waiting
\* for the client's bytes: nothing in the handler runs
upload_timeout_elapses(t) ==
    /\ pc[t] = "reading"
    /\ "slow_client" \in faults
    /\ pc' = [pc EXCEPT ![t] = "reading_late"]
    /\ UNCHANGED <<fs, req, valid_api_keys, default_key, resp, thread_counter, pool_vars, env_vars, acked>>

\* rfile.read returns, the client having sent the payload; if it took
\* longer than upload_timeout the answer is 408; else the temp file is
\* written and the job submitted to the pool
upload_store(t) ==
    /\ pc[t] \in {"reading", "reading_late"}
    /\ LET in_time == pc[t] = "reading"
       IN IF ~in_time
          THEN /\ Reply(t, send_error(408))
               /\ UNCHANGED <<fs, pool_vars>>
          ELSE /\ fs' = WriteFile(fs, TempOf(t), Raw(req[t].body))
               /\ work_queue' = submit(work_queue, t)
               /\ future' = [future EXCEPT ![t] = "PENDING"]
               /\ pc' = [pc EXCEPT ![t] = "awaiting"]
               /\ UNCHANGED <<resp, jpc, result, worker_of, execs, tried>>
    /\ UNCHANGED <<req, valid_api_keys, default_key, thread_counter, env_vars, acked>>

\* future.result returns within conversion_timeout: 200 on success (after
\* os.path.getsize of the final file, which raises if it is gone: 500), 500
\* on failure
await_result(t) ==
    /\ pc[t] = "awaiting"
    /\ future[t] = "FINISHED"
    /\ IF ~result[t].success THEN Reply(t, send_error(500))
       ELSE IF FinalOf(t) \notin DOMAIN fs THEN Reply(t, send_error(500))
       ELSE Reply(t, Response(200, FALSE,
                [kind |-> "uploaded", filename |-> filename_of(req[t]),
                 directory |-> get_target_directory(filename_of(req[t]))]))
    /\ acked' = IF resp'[t].status = 200 /\ ~IsContended(acked, filename_of(req[t]))
                THEN Record(acked, filename_of(req[t]), req[t].body)
                ELSE acked
    /\ UNCHANGED <<fs, req, valid_api_keys, default_key, thread_counter, pool_vars, env_vars>>

\* A cancel that also stops a running job.
cancel_forced(state) == IF state \in {"PENDING", "RUNNING"} THEN "CANCELLED" ELSE state

\* Future.cancel(): a pending future becomes cancelled, a running or
\* finished one is left alone
cancel(state) == IF state = "PENDING" THEN "CANCELLED" ELSE state

\* future.result raises TimeoutError: 408, then future.cancel()
await_timeout(t) ==
    /\ pc[t] = "awaiting"
    /\ future[t] \in {"PENDING", "RUNNING"}
    /\ Reply(t, send_error(408))
    /\ future' = [future EXCEPT ![t] = cancel(future[t])]
    /\ UNCHANGED <<fs, req, valid_api_keys, default_key, thread_counter, work_queue, jpc, result,
                   worker_of, execs, tried, env_vars, acked>>

(***************************************************************************)
(* Conversion Worker Pool: ThreadPoolExecutor and                          *)
(* convert_audio_with_cleanup                                              *)
(***************************************************************************)
\* A worker that is taken for idle whatever it is doing.
Idle_always(w) == w \in Workers

Idle(w) == \A j \in Threads : worker_of[j] # w

\* A job that goes back to the tool that has just failed.
next_strategy_again(after) ==
    IF after \in {"start", "sox"} /\ "sox" \in installed THEN "sox"
    ELSE IF after \in {"start", "sox"} /\ "ffmpeg" \in installed THEN "ffmpeg"
    ELSE "copy"

\* The strategy tried after `after`: subprocess.run raises FileNotFoundError
\* at once for a tool that is not installed, which touches nothing shared,
\* so a missing tool is passed over in the step that reaches it.
next_strategy(after) ==
    IF after = "start" /\ "sox" \in installed THEN "sox"
    ELSE IF after \in {"start", "sox"} /\ "ffmpeg" \in installed THEN "ffmpeg"
    ELSE "copy"

\* The tools found missing on the way from `after` to next_strategy(after)
missing_tools(after) ==
    (IF after = "start" /\ "sox" \notin installed THEN <<"sox">> ELSE <<>>)
    \o (IF next_strategy(after) = "copy" /\ "ffmpeg" \notin installed
        THEN <<"ffmpeg">> ELSE <<>>)

\* _worker: take the next work item; a cancelled one is dropped
\* (set_running_or_notify_cancel), any other starts running. Which of the
\* idle workers wakes up makes no difference: the lowest is taken.
worker_take(w) ==
    /\ work_queue # <<>>
    /\ Idle(w)
    /\ \A v \in Workers : Idle(v) => w <= v
    /\ LET j == Head(work_queue)
       IN  /\ work_queue' = Tail(work_queue)
           /\ IF future[j] = "CANCELLED"
              THEN UNCHANGED <<future, jpc, worker_of, execs, tried>>
              ELSE /\ future' = [future EXCEPT ![j] = "RUNNING"]
                   /\ jpc' = [jpc EXCEPT ![j] = next_strategy("start")]
                   /\ worker_of' = [worker_of EXCEPT ![j] = w]
                   /\ execs' = [execs EXCEPT ![j] = @ + 1]
                   /\ tried' = [tried EXCEPT ![j] = @ \o missing_tools("start")]
    /\ UNCHANGED <<fs, result, handler_vars, env_vars, acked>>

\* A cleanup that leaves the temp file behind.
cleanup_skipped(f, temp) == f

\* cleanup_temp_file
cleanup_temp_file(f, temp) == IF temp \in DOMAIN f THEN RemoveFile(f, temp) ELSE f

\* The job returns (success, message): the future finishes, the worker is free.
job_return(j, success, message) ==
    /\ result' = [result EXCEPT ![j] = [success |-> success, message |-> message]]
    /\ future' = [future EXCEPT ![j] = "FINISHED"]
    /\ jpc' = [jpc EXCEPT ![j] = "-"]
    /\ worker_of' = [worker_of EXCEPT ![j] = 0]

\* subprocess.run([tool, temp, ..., final]) starts the tool, which creates
\* its output file at the final path and writes to it while it runs; an
\* OSError other than FileNotFoundError (the tool is there and cannot be
\* executed) is caught by the outer handler: cleanup, return failure
tool_start(j) ==
    /\ jpc[j] \in {"sox", "ffmpeg"}
    /\ tried' = [tried EXCEPT ![j] = Append(@, jpc[j])]
    /\ \E started \in {TRUE} \cup {FALSE : x \in faults \cap {"io_error"}} :
          IF started
          THEN /\ fs' = WriteFile(fs, FinalOf(j), PartialOutput(fs[TempOf(j)]))
               /\ jpc' = [jpc EXCEPT ![j] = jpc[j] \o "_run"]
               /\ UNCHANGED <<result, future, worker_of>>
          ELSE /\ fs' = cleanup_temp_file(fs, TempOf(j))
               /\ job_return(j, FALSE, "error")
    /\ UNCHANGED <<work_queue, execs, handler_vars, env_vars, acked>>

\* The tool ends: return code 0 (output complete: cleanup, chmod, return
\* success), a non-zero return code or TimeoutExpired after 25 s (on to the
\* next strategy; what the tool wrote stays where it is)
tool_exit(j) ==
    /\ jpc[j] \in {"sox_run", "ffmpeg_run"}
    /\ \E returncode \in {"0", "nonzero", "timeout"} :
          IF returncode = "0"
          THEN /\ fs' = cleanup_temp_file(
                            WriteFile(fs, FinalOf(j), Converted(fs[TempOf(j)])), TempOf(j))
               /\ job_return(j, TRUE,
                      IF jpc[j] = "sox_run" THEN "Converted with sox"
                                            ELSE "Converted with ffmpeg")
               /\ UNCHANGED tried
          ELSE /\ jpc' = [jpc EXCEPT ![j] =
                             next_strategy(IF jpc[j] = "sox_run" THEN "sox" ELSE "ffmpeg")]
               /\ tried' = [tried EXCEPT ![j] =
                             @ \o missing_tools(IF jpc[j] = "sox_run" THEN "sox" ELSE "ffmpeg")]
               /\ UNCHANGED <<fs, result, future, worker_of>>
    /\ UNCHANGED <<work_queue, execs, handler_vars, env_vars, acked>>

\* Fallback: shutil.copy2(temp, final), cleanup, chmod, return success; a
\* copy that raises is caught by the outer handler: cleanup, return failure
fallback_copy(j) ==
    /\ jpc[j] = "copy"
    /\ tried' = [tried EXCEPT ![j] = Append(@, "copy")]
    /\ \E copied \in {TRUE} \cup {FALSE : x \in faults \cap {"io_error"}} :
          IF copied
          THEN /\ fs' = cleanup_temp_file(WriteFile(fs, FinalOf(j), fs[TempOf(j)]), TempOf(j))
               /\ job_return(j, TRUE, "Used original file (no conversion)")
          ELSE /\ fs' = cleanup_temp_file(fs, TempOf(j))
               /\ job_return(j, FALSE, "error")
    /\ UNCHANGED <<work_queue, execs, handler_vars, env_vars, acked>>

(***************************************************************************)
(* Specifications                                                          *)
(***************************************************************************)
\* The server as main() starts it, with room for n handler threads, the
\* given files in the storage areas and the given key file.
InitialState(n, files, key_file) ==
    /\ fs = files
    /\ api_keys_file = key_file
    /\ default_key = [t \in 1..n |-> None]
    /\ thread_counter = 0
    /\ pc = [t \in 1..n |-> "unborn"]
    /\ req = [t \in 1..n |-> NoRequest]
    /\ valid_api_keys = [t \in 1..n |-> {}]
    /\ resp = [t \in 1..n |-> NoResponse]
    /\ work_queue = <<>>
    /\ future = [t \in 1..n |-> "NONE"]
    /\ jpc = [t \in 1..n |-> "-"]
    /\ result = [t \in 1..n |-> NoResult]
    /\ worker_of = [t \in 1..n |-> 0]
    /\ execs = [t \in 1..n |-> 0]
    /\ tried = [t \in 1..n |-> <<>>]
    /\ acked = [f \in {} |-> None]

\* One recording in the Permanent area, a key file holding the key k1.
InitCommon ==
    InitialState(MaxThreads,
                 [p \in {path_join(recordings_dir, "plain.wav")} |-> Raw("b0")],
                 KeyFile(<<"# API Keys para servidor Asterisk", "k1">>))

Init ==
    /\ InitCommon
    /\ installed \in {{}, {"sox", "ffmpeg"}}
    /\ faults = {"slow_client", "io_error"}

Handle(t) ==
    \/ do_GET(t)
    \/ serve_file(t)
    \/ do_DELETE(t)
    \/ delete_remove(t)
    \/ do_POST(t)
    \/ upload_store(t)
    \/ await_result(t)
    \/ await_timeout(t)

Convert(j) ==
    \/ tool_start(j)
    \/ tool_exit(j)
    \/ fallback_copy(j)

Next ==
    \/ \E t \in Threads : Accept(t, Requests, MaxRequests, FALSE)
    \/ \E t \in Threads : Handle(t)
    \/ \E t \in Threads : upload_timeout_elapses(t)
    \/ \E w \in Workers : worker_take(w)
    \/ \E j \in Threads : Convert(j)

Spec == Init /\ [][Next]_vars

\* No conversion tool installed, no faults: every job is the fallback copy.
InitRoundTrip ==
    /\ InitCommon
    /\ installed = {}
    /\ faults = {}

NextRoundTrip ==
    \/ \E t \in Threads : Accept(t, RoundTripRequests, MaxRoundTripRequests, FALSE)
    \/ \E t \in Threads : do_GET(t) \/ serve_file(t) \/ do_POST(t) \/ upload_store(t)
    \/ \E t \in Threads : await_result(t) \/ await_timeout(t)
    \/ \E w \in Workers : worker_take(w)
    \/ \E j \in Threads : fallback_copy(j)

SpecRoundTrip == InitRoundTrip /\ [][NextRoundTrip]_vars

\* Every method, with and without credentials.
InitAuth ==
    /\ InitCommon
    /\ installed \in {{}, {"sox"}}
    /\ faults = {}

NextAuth ==
    \/ \E t \in Threads : Accept(t, AuthRequests, MaxAuthRequests, FALSE)
    \/ \E t \in Threads : Handle(t) \/ do_HEAD(t)
    \/ \E w \in Workers : worker_take(w)
    \/ \E j \in Threads : Convert(j)

SpecAuth == InitAuth /\ [][NextAuth]_vars

\* Uploads and downloads over the filename conventions.
InitRoute ==
    /\ InitCommon
    /\ installed \in {{}, {"ffmpeg"}}
    /\ faults = {}

NextRoute ==
    \/ \E t \in Threads : Accept(t, RouteRequests, MaxRouteRequests, FALSE)
    \/ \E t \in Threads : do_GET(t) \/ serve_file(t) \/ do_POST(t) \/ upload_store(t)
    \/ \E t \in Threads : await_result(t) \/ await_timeout(t)
    \/ \E w \in Workers : worker_take(w)
    \/ \E j \in Threads : Convert(j)

SpecRoute == InitRoute /\ [][NextRoute]_vars

\* Deletions, with files in all three areas.
InitDelete ==
    /\ InitialState(MaxDeleteRequests,
                    [p \in {path_join(recordings_dir, "plain.wav"),
                            path_join(tts_dir, "tts_x.wav"),
                            path_join(tts_dir, "plain.wav"),
                            path_join(stt_dir, "placa_y.wav")} |-> Raw("b0")],
                    KeyFile(<<"# API Keys para servidor Asterisk", "k1">>))
    /\ installed = {}
    /\ faults = {}

NextDelete ==
    \/ \E t \in Threads : Accept(t, DeleteRequests, MaxDeleteRequests, FALSE)
    \/ \E t \in Threads : do_DELETE(t) \/ delete_remove(t)
    \/ \E t \in Threads : do_POST(t) \/ upload_store(t)
    \/ \E t \in Threads : await_result(t) \/ await_timeout(t)
    \/ \E w \in Workers : worker_take(w)
    \/ \E j \in Threads : fallback_copy(j)

SpecDelete == InitDelete /\ [][NextDelete]_vars

\* A client that sends each request after the answer to the one before.
InitSerial ==
    /\ InitialState(MaxSerialRequests,
                    [p \in {path_join(recordings_dir, "plain.wav")} |-> Raw("b0")],
                    KeyFile(<<"# API Keys para servidor Asterisk", "k1">>))
    /\ installed = {}
    /\ faults = {}

NextSerial ==
    \/ \E t \in Threads : /\ \A u \in Threads : pc[u] \in {"unborn", "done"}
                          /\ Accept(t, SerialRequests, MaxSerialRequests, FALSE)
    \/ \E t \in Threads : do_DELETE(t) \/ delete_remove(t)
    \/ \E t \in Threads : do_POST(t) \/ upload_store(t)
    \/ \E t \in Threads : await_result(t) \/ await_timeout(t)
    \/ \E w \in Workers : worker_take(w)
    \/ \E j \in Threads : fallback_copy(j)

SpecSerial == InitSerial /\ [][NextSerial]_vars

\* Uploads over filenames and declared lengths, no conversion tool.
InitValidate ==
    /\ InitialState(MaxValidateRequests,
                    [p \in {path_join(recordings_dir, "plain.wav")} |-> Raw("b0")],
                    KeyFile(<<"# API Keys para servidor Asterisk", "k1">>))
    /\ installed = {}
    /\ faults = {}

NextValidate ==
    \/ \E t \in Threads : Accept(t, ValidateRequests, MaxValidateRequests, FALSE)
    \/ \E t \in Threads : do_POST(t) \/ upload_store(t)
    \/ \E t \in Threads : await_result(t) \/ await_timeout(t)
    \/ \E w \in Workers : worker_take(w)
    \/ \E j \in Threads : fallback_copy(j)

SpecValidate == InitValidate /\ [][NextValidate]_vars

\* Uploads by clients that may send their payload slowly or stop sending.
\* The server's own steps are fair and time passes; nothing makes a client
\* send: rfile.read returns when the client has sent the payload, and the
\* socket has no timeout.
InitUpload ==
    /\ InitialState(MaxUploadRequests,
                    [p \in {path_join(recordings_dir, "plain.wav")} |-> Raw("b0")],
                    KeyFile(<<"# API Keys para servidor Asterisk", "k1">>))
    /\ installed = {}
    /\ faults = {"slow_client"}

NextUpload ==
    \/ \E t \in Threads : Accept(t, RoundTripRequests, MaxUploadRequests, FALSE)
    \/ \E t \in Threads : do_GET(t) \/ serve_file(t) \/ do_POST(t)
    \/ \E t \in Threads : upload_timeout_elapses(t)
    \/ \E t \in Threads : upload_store(t)
    \/ \E t \in Threads : await_result(t) \/ await_timeout(t)
    \/ \E w \in Workers : worker_take(w)
    \/ \E j \in Threads : fallback_copy(j)

\* What the server does for connection t without the client's help, and the
\* passing of time.
ServerStep(t) ==
    \/ do_GET(t) \/ serve_file(t) \/ do_POST(t)
    \/ upload_timeout_elapses(t)
    \/ await_result(t) \/ await_timeout(t)
    \/ fallback_copy(t)

SpecUpload ==
    /\ InitUpload
    /\ [][NextUpload]_vars
    /\ \A t \in 1..MaxUploadRequests : WF_vars(ServerStep(t))
    /\ WF_vars(\E w \in Workers : worker_take(w))

\* A burst of uploads: more connections than max_children arrive while the
\* first conversions are still running and before any await has timed out.
\* ThreadingMixIn.process_request starts a thread for every connection
\* accepted; max_children is read by ForkingMixIn only.
InitConn ==
    /\ InitialState(MaxConnections,
                    [p \in {path_join(recordings_dir, "plain.wav")} |-> Raw("b0")],
                    KeyFile(<<"# API Keys para servidor Asterisk", "k1">>))
    /\ installed = {"sox"}
    /\ faults = {}

NextConn ==
    \/ \E t \in Threads : Accept(t, PoolUploads, MaxConnections, TRUE)
    \/ \E t \in Threads : do_POST(t) \/ upload_store(t)
    \/ \E w \in Workers : worker_take(w)
    \/ \E j \in Threads : tool_start(j)

SpecConn == InitConn /\ [][NextConn]_vars

\* More uploads than the pool has workers, whose conversions run on and
\* on, and then, with every worker busy, requests that are no uploads. The
\* handlers of these take
\* their steps (weak fairness: a handler thread that can run does); nothing
\* is assumed of the pool or of the uploads.
InitIsolation ==
    /\ InitialState(IsolationRequests,
                    [p \in {path_join(recordings_dir, "plain.wav")} |-> Raw("b0")],
                    KeyFile(<<"# API Keys para servidor Asterisk", "k1">>))
    /\ installed = {"sox"}
    /\ faults = {}

\* What the handler of a request that is no upload does.
LightStep(t) ==
    do_GET(t) \/ serve_file(t) \/ do_DELETE(t) \/ delete_remove(t) \/ do_POST(t)

NextIsolation ==
    \/ \E t \in 1..PoolRequests : Accept(t, PoolUploads, PoolRequests, TRUE)
    \/ \E t \in (PoolRequests + 1)..IsolationRequests :
          /\ \A w \in Workers : \E j \in Threads : worker_of[j] = w /\ jpc[j] = "sox_run"
          /\ Accept(t, LightRequests, IsolationRequests, FALSE)
    \/ \E t \in Threads : do_GET(t) \/ serve_file(t)
    \/ \E t \in Threads : do_DELETE(t) \/ delete_remove(t)
    \/ \E t \in Threads : do_POST(t) \/ upload_store(t)
    \/ \E t \in Threads : await_timeout(t)
    \/ \E w \in Workers : worker_take(w)
    \/ \E j \in Threads : tool_start(j)

SpecIsolation ==
    /\ InitIsolation
    /\ [][NextIsolation]_vars
    /\ \A t \in (PoolRequests + 1)..IsolationRequests : WF_vars(LightStep(t))

\* More uploads than the pool has workers.
InitPool ==
    /\ InitCommon
    /\ installed = {}
    /\ faults = {}

NextPool ==
    \/ \E t \in Threads : Accept(t, PoolUploads, PoolRequests, TRUE)
    \/ \E t \in Threads : do_POST(t) \/ upload_store(t)
    \/ \E t \in Threads : await_result(t) \/ await_timeout(t)
    \/ \E w \in Workers : worker_take(w)
    \/ \E j \in Threads : fallback_copy(j)

SpecPool == InitPool /\ [][NextPool]_vars

\* Uploads on a host with any of the two conversion tools installed, where
\* a tool may fail, time out or be impossible to execute.
InitStrategies ==
    /\ InitialState(MaxStrategyRequests,
                    [p \in {path_join(recordings_dir, "plain.wav")} |-> Raw("b0")],
                    KeyFile(<<"# API Keys para servidor Asterisk", "k1">>))
    /\ installed \in SUBSET {"sox", "ffmpeg"}
    /\ faults = {"io_error"}

NextStrategies ==
    \/ \E t \in Threads : Accept(t, StrategyRequests, MaxStrategyRequests, FALSE)
    \/ \E t \in Threads : do_POST(t) \/ upload_store(t)
    \/ \E t \in Threads : await_result(t) \/ await_timeout(t)
    \/ \E w \in Workers : worker_take(w)
    \/ \E j \in Threads : Convert(j)

SpecStrategies == InitStrategies /\ [][NextStrategies]_vars

\* Uploads whose callers may time out before or while their job runs. The
\* pool's workers and the jobs take their steps: a worker blocked on the
\* queue wakes up when an item is put, and every strategy of a job ends
\* (subprocess.run has timeout=25).
InitAbandon ==
    /\ InitialState(MaxAbandonRequests,
                    [p \in {path_join(recordings_dir, "plain.wav")} |-> Raw("b0")],
                    KeyFile(<<"# API Keys para servidor Asterisk", "k1">>))
    /\ installed \in {{}, {"sox"}}
    /\ faults = {}

NextAbandon ==
    \/ \E t \in Threads : Accept(t, StrategyRequests, MaxAbandonRequests, FALSE)
    \/ \E t \in Threads : do_POST(t) \/ upload_store(t)
    \/ \E t \in Threads : await_result(t) \/ await_timeout(t)
    \/ \E w \in Workers : worker_take(w)
    \/ \E j \in Threads : Convert(j)

SpecAbandon ==
    /\ InitAbandon
    /\ [][NextAbandon]_vars
    /\ \A j \in 1..MaxAbandonRequests : WF_vars(Convert(j))
    /\ WF_vars(\E w \in Workers : worker_take(w))

\* The first requests of a server started without a key file.
InitKeys ==
    /\ InitialState(MaxKeyRequests,
                    [p \in {path_join(recordings_dir, "plain.wav")} |-> Raw("b0")],
                    NoKeyFile)
    /\ installed = {}
    /\ faults = {}

NextKeys ==
    \/ \E t \in Threads : Accept(t, KeyRequests, MaxKeyRequests, FALSE)
    \/ \E t \in Threads : create_keys_open(t)
    \/ \E t \in Threads : create_keys_write(t)
    \/ \E t \in Threads : do_GET(t)
    \/ \E t \in Threads : serve_file(t)

SpecKeys == InitKeys /\ [][NextKeys]_vars

(***************************************************************************)
(* Claims                                                                  *)
(***************************************************************************)
Uploaders == {t \in Threads : future[t] # "NONE"}

Answered(t) == pc[t] = "done"

\* The request carries a token of the credential set under Bearer or ApiKey.
HasCredential(t) ==
    \E scheme \in {"Bearer", "ApiKey"}, key \in load_api_keys(api_keys_file.lines) :
        lower(req[t].auth) = lower(scheme \o " " \o key)
        /\ DropPrefix(req[t].auth, Len(scheme) + 1) = key

\* C1: every answered request without a valid Authorization header, whatever
\* its method, is answered 401 with a WWW-Authenticate challenge and no
\* information about stored files, and never gets as far as reading or
\* changing a storage area.
C1_UnauthenticatedIsRefused ==
    \A t \in Threads :
        (pc[t] # "unborn" /\ ~HasCredential(t)) =>
            /\ pc[t] \in {"accepted", "done"}
            /\ future[t] = "NONE"
            /\ Answered(t) => resp[t] = Response(401, TRUE, NoBody)

IsTempName(name) == startswith(name, "temp_")

\* C2: what a conversion tool has written so far is never at a final path:
\* partial output exists only under temp names, and no temp name is a
\* filename the validator accepts.
C2_PartialOutputOnlyAtTempPath ==
    /\ \A p \in DOMAIN fs : fs[p].fmt = "partial" => IsTempName(basename(p))
    /\ \A t \in Uploaders : ~validate_file_upload(basename(TempOf(t)), 1)

FinalContent(f, t) == IF FinalOf(t) \in DOMAIN f THEN f[FinalOf(t)] ELSE [fmt |-> "absent"]

\* The upload was answered 408 by the await on its job.
Abandoned(t) == Answered(t) /\ resp[t].status = 408 /\ future[t] # "NONE"

\* C3: once an upload has been answered 408 for its conversion, no step of
\* its job creates or changes the file at the final path.
C3_AbandonedJobLeavesFinalPath ==
    [][\A j \in Threads :
          (Abandoned(j) /\ (tool_start(j) \/ tool_exit(j) \/ fallback_copy(j)))
              => FinalContent(fs', j) = FinalContent(fs, j)]_vars

QueueCount(j) == Cardinality({i \in DOMAIN work_queue : work_queue[i] = j})

PoolQuiet == work_queue = <<>> /\ \A j \in Threads : future[j] # "RUNNING"

\* C4, as claimed: no job is executed twice, and once the pool is quiet every
\* submitted job has been executed and has completed.
C4_EveryJobCompletes ==
    /\ \A j \in Threads : execs[j] <= 1
    /\ PoolQuiet => \A j \in Uploaders : future[j] = "FINISHED" /\ execs[j] = 1

\* C4, amended: a job is in the queue exactly once until a worker takes it,
\* is executed at most once and by one worker, and is left unexecuted only
\* when its caller's await timed out and cancelled it while it was pending;
\* a running job is at a step of the conversion and the queue holds only
\* pending and cancelled jobs; so once the pool is quiet every submitted job
\* has completed or was cancelled.
C4_JobsRunOnceUnlessCancelled ==
    /\ \A j \in Threads :
          /\ execs[j] <= 1
          /\ future[j] = "NONE" => execs[j] = 0 /\ QueueCount(j) = 0
          /\ future[j] = "PENDING" => execs[j] = 0 /\ QueueCount(j) = 1
          /\ future[j] = "RUNNING" =>
                execs[j] = 1 /\ QueueCount(j) = 0 /\ worker_of[j] \in Workers
          /\ future[j] = "FINISHED" => execs[j] = 1 /\ QueueCount(j) = 0
          /\ future[j] = "CANCELLED" => execs[j] = 0 /\ Abandoned(j)
          /\ future[j] = "RUNNING" <=>
                jpc[j] \in {"sox", "sox_run", "ffmpeg", "ffmpeg_run", "copy"}
    /\ \A i, j \in Threads :
          (i # j /\ future[i] = "RUNNING" /\ future[j] = "RUNNING") => worker_of[i] # worker_of[j]
    /\ \A i \in DOMAIN work_queue : future[work_queue[i]] \in {"PENDING", "CANCELLED"}
    /\ PoolQuiet => \A j \in Uploaders : future[j] \in {"FINISHED", "CANCELLED"}

\* More jobs than workers: every worker is busy and a job waits in the queue.
C4_PoolSaturated ==
    /\ Cardinality({j \in Threads : future[j] = "RUNNING"}) = max_workers
    /\ \E j \in Threads : future[j] = "PENDING"

InFlight(t) == future[t] \in {"PENDING", "RUNNING"}

\* C5: any two uploads in flight have different temp paths, and the temp
\* file of each holds its own payload.
C5_TempPathsDistinct ==
    /\ \A i, j \in Threads : (i # j /\ InFlight(i) /\ InFlight(j)) => TempOf(i) # TempOf(j)
    /\ \A i \in Threads : InFlight(i) =>
          TempOf(i) \in DOMAIN fs /\ fs[TempOf(i)] = Raw(req[i].body)

\* Two uploads of one filename in flight, one of them already answered 408.
C5_SameNameInFlight ==
    \E i, j \in Threads :
        /\ i # j /\ InFlight(i) /\ InFlight(j)
        /\ filename_of(req[i]) = filename_of(req[j])
        /\ req[i].body # req[j].body
        /\ Abandoned(i)

C7_FailureOnlyAfterFallback ==
    \A j \in Threads :
        (future[j] = "FINISHED" /\ ~result[j].success) => "copy" \in Range(tried[j])

\* C8: the answer to an awaiting upload is decided by its job: 408 if the job
\* has not completed, 200 if it returned success, 500 if it returned failure.
C8_OutcomeDecidesStatus ==
    [][\A t \in Threads :
          (pc[t] = "awaiting" /\ pc'[t] = "done") =>
              resp'[t].status = (IF future[t] # "FINISHED" THEN 408
                                 ELSE IF result[t].success THEN 200 ELSE 500)]_vars

\* The claim's table of areas.
ExpectedDirectory(filename) ==
    CASE startswith(filename, "tts_") -> "/tmp/asterisk/tts"
      [] startswith(filename, "placa_") \/ startswith(filename, "papeleta_") -> "/tmp/asterisk/stt"
      [] OTHER -> "/var/spool/asterisk/recording"

\* The download path implied by a filename's area.
DownloadUrl(filename) ==
    CASE ExpectedDirectory(filename) = "/tmp/asterisk/tts" -> "/tts/" \o filename
      [] ExpectedDirectory(filename) = "/tmp/asterisk/stt" -> "/stt/" \o filename
      [] OTHER -> "/" \o filename

\* C9: with no conversion tool, when an upload of f with payload b has been
\* answered 200 and no upload or delete of f has been received since, a GET
\* of f received after that answer returns 200 with exactly b.
C9_RoundTrip ==
    [][\A g \in Threads : \A f \in DOMAIN acked :
          ( /\ installed = {}
            /\ acked[f] # Contended
            /\ req[g].method = "GET" /\ req[g].path = DownloadUrl(f)
            /\ pc[g] \notin {"unborn", "done"} /\ pc'[g] = "done" )
          => resp'[g] = Response(200, FALSE, [kind |-> "file", content |-> Raw(acked[f])])]_vars

\* C10: an upload is stored in the area its filename's prefix names, and
\* nowhere else: its final path and the directory it reports are those of
\* the table, and every file lies in the directory of the table under its
\* name or a temp name.
C10_StoredInTargetArea ==
    /\ \A t \in Uploaders :
          LET f == filename_of(req[t])
              d == ExpectedDirectory(f)
          IN  /\ FinalOf(t) = d \o "/" \o f
              /\ InFlight(t) => (d \o "/temp_" \o thread_name(t) \o "_" \o f) \in DOMAIN fs
              /\ (Answered(t) /\ resp[t].status = 200) =>
                    /\ resp[t].body.directory = d
                    /\ (d \o "/" \o f) \in DOMAIN fs
    /\ \A p \in DOMAIN fs :
          \/ p = "/var/spool/asterisk/recording/plain.wav"
          \/ \E t \in Uploaders :
                LET f == filename_of(req[t])
                    d == ExpectedDirectory(f)
                IN  p \in {d \o "/" \o f, d \o "/temp_" \o thread_name(t) \o "_" \o f}

\* Uploads answered 200 into each of the three areas, by each prefix.
C10_Routed ==
    \E t, u \in Uploaders :
        /\ Answered(t) /\ resp[t].status = 200 /\ filename_of(req[t]) = "papeleta_z.wav"
        /\ "/tmp/asterisk/stt/papeleta_z.wav" \in DOMAIN fs
        /\ Answered(u) /\ resp[u].status = 200 /\ filename_of(req[u]) = "tts.wav"
        /\ "/var/spool/asterisk/recording/tts.wav" \in DOMAIN fs

\* The files of the two ephemeral areas.
Ephemeral(f) ==
    [p \in {q \in DOMAIN f : \/ startswith(q, "/tmp/asterisk/tts/")
                             \/ startswith(q, "/tmp/asterisk/stt/")} |-> f[p]]

InPermanent(f, name) == ("/var/spool/asterisk/recording/" \o name) \in DOMAIN f

\* C11: a step of a DELETE handler leaves both ephemeral areas as they were
\* and at most removes a file of the Permanent area; an authenticated DELETE
\* of a name that is not in the Permanent area is answered 404, also when
\* the name exists in an ephemeral area.
C11_DeleteOnlyPermanent ==
    [][\A t \in Threads :
          (req[t].method = "DELETE" /\ pc[t] \in {"accepted", "remove"} /\ pc'[t] # pc[t]) =>
             LET name == basename(lstrip_slash(req[t].path))
             IN  /\ Ephemeral(fs') = Ephemeral(fs)
                 /\ DOMAIN fs' \subseteq DOMAIN fs
                 /\ \A p \in DOMAIN fs' : fs'[p] = fs[p]
                 /\ \A p \in DOMAIN fs \ DOMAIN fs' :
                       startswith(p, "/var/spool/asterisk/recording/")
                 /\ (pc[t] = "accepted" /\ Authenticated(t) /\ name # ""
                       /\ ~InPermanent(fs, name)) => resp'[t].status = 404]_vars

\* A DELETE of a file of the tts area was answered 404 and the file is still
\* there, and a DELETE of a recording was answered 200 and removed it.
C11_EphemeralRefused ==
    \E t, u \in Threads :
        /\ Answered(t) /\ req[t] = Delete("/tts/tts_x.wav") /\ resp[t].status = 404
        /\ "/tmp/asterisk/tts/tts_x.wav" \in DOMAIN fs
        /\ Answered(u) /\ req[u] = Delete("/plain.wav") /\ resp[u].status = 200
        /\ ~InPermanent(fs, "plain.wav")

\* Handler t serves an authenticated DELETE of the recording plain.wav.
DeletesRecording(t) == pc[t] # "unborn" /\ req[t] = Delete("/plain.wav")

\* An upload of plain.wav was received after request u and before request t.
UploadBetween(u, t) ==
    \E v \in Threads : u < v /\ v < t /\ pc[v] # "unborn" /\ req[v].method = "POST"

\* C12: with requests sent one after the other and the recording present at
\* the start, a DELETE with no upload before it is answered 200; of two
\* DELETEs with no upload received between them, the second is answered 404
\* if the first was answered 200; and after a DELETE answered 200 the file
\* is absent until an upload is received.
C12_DeleteTwice ==
    /\ \A t \in Threads :
          (DeletesRecording(t) /\ Answered(t) /\ ~UploadBetween(0, t)
             /\ \A u \in Threads : u < t => ~DeletesRecording(u)) => resp[t].status = 200
    /\ \A u, t \in Threads :
          (u < t /\ DeletesRecording(u) /\ DeletesRecording(t) /\ Answered(t)
             /\ resp[u].status = 200 /\ ~UploadBetween(u, t)) => resp[t].status = 404
    /\ \A u \in Threads :
          (DeletesRecording(u) /\ Answered(u) /\ resp[u].status = 200
             /\ ~UploadBetween(u, Cardinality(Threads) + 1)) => ~InPermanent(fs, "plain.wav")

\* Handler t serves an authenticated request to an upload endpoint.
IsUpload(t) ==
    /\ pc[t] # "unborn" /\ req[t].method = "POST"
    /\ req[t].path \in {"/upload", "/tts", "/stt"} /\ Authenticated(t)

\* The characters the specification allows in a filename.
AllowedChars ==
    { "A","B","C","D","E","F","G","H","I","J","K","L","M","N","O","P","Q","R","S","T",
      "U","V","W","X","Y","Z","a","b","c","d","e","f","g","h","i","j","k","l","m","n",
      "o","p","q","r","s","t","u","v","w","x","y","z","0","1","2","3","4","5","6","7",
      "8","9","_",".","-" }

\* validate as the specification words it.
ExpectedValid(filename, declared_length) ==
    /\ declared_length <= 52428800
    /\ splitext_ext(lower(filename)) \in {".wav", ".mp3", ".ogg"}
    /\ \A i \in 1..Len(filename) : SubSeq(filename, i, i) \in AllowedChars

\* C13: an upload that declares a length other than 0 is rejected by
\* validation (answered 400) exactly when its declared length is over
\* 50 MiB, or its extension is not .wav/.mp3/.ogg in any case, or its
\* filename has a character outside [A-Za-z0-9_.-].
C13_ValidateExactly ==
    \A t \in Threads :
        (IsUpload(t) /\ pc[t] # "accepted" /\ req[t].content_length # 0) =>
            ((Answered(t) /\ resp[t].status = 400)
                <=> ~ExpectedValid(filename_of(req[t]), req[t].content_length))

\* The upload handler t serves is one the validator refuses.
FailsValidation(t) ==
    IsUpload(t) /\ ~validate_file_upload(filename_of(req[t]), req[t].content_length)

\* C14: the step an upload handler takes for a request that fails validation
\* answers 400 and ends the handling, with the payload unread, the files of
\* all three areas and the pool's queue and futures as they were; so no
\* such handler ever reads a payload, owns a temp file or has a job.
C14_ValidationFirst ==
    [][\A t \in Threads :
          /\ (FailsValidation(t) /\ pc[t] = "accepted" /\ pc'[t] # pc[t]) =>
                /\ pc'[t] = "done" /\ resp'[t].status = 400
                /\ fs' = fs /\ work_queue' = work_queue /\ future' = future
          /\ FailsValidation(t) =>
                /\ pc[t] \in {"accepted", "done"}
                /\ future[t] = "NONE"
                /\ TempOf(t) \notin DOMAIN fs]_vars

\* An upload of a filename with a space was answered 400 while another
\* upload was in flight.
C14_RefusedUnread ==
    \E t, u \in Threads :
        /\ FailsValidation(t) /\ filename_of(req[t]) = "a b.wav"
        /\ Answered(t) /\ resp[t].status = 400
        /\ u < t /\ InFlight(u)

\* C15: an upload that declares no length, or a length of 0 or less, is
\* answered 400 and never reads a payload.
C15_LengthMustBePositive ==
    \A t \in Threads :
        (IsUpload(t) /\ req[t].content_length <= 0) =>
            /\ pc[t] \in {"accepted", "done"}
            /\ Answered(t) => resp[t].status = 400

\* C16: an upload whose payload has not arrived when the upload-read
\* timeout elapses is then answered 408, with no temp file written and no
\* job submitted.
C16_ReadIsBounded ==
    \A t \in 1..MaxUploadRequests :
        (pc[t] = "reading_late") ~>
            (pc[t] = "done" /\ resp[t].status = 408 /\ future[t] = "NONE")

\* The connections being handled: the handler threads alive.
Handling == {t \in Threads : pc[t] \notin {"unborn", "done"}}

\* C17: never more than max_children (50) connections are being handled
\* at once.
C17_ConnectionsBounded == Cardinality(Handling) <= 50

\* The jobs being executed.
Executing == {j \in Threads : jpc[j] # "-"}

\* C18: at most 5 jobs are being executed, every job being executed is on
\* one of the 5 workers, and no worker has more than one job.
C18_WorkersBounded ==
    /\ Cardinality(Executing) <= 5
    /\ \A j \in Executing : worker_of[j] \in 1..5
    /\ \A w \in 1..5 : Cardinality({j \in Threads : worker_of[j] = w}) <= 1
    /\ \A j \in Threads : j \notin Executing => worker_of[j] = 0

\* Five jobs are being executed, the caller of one of them has timed out,
\* and a sixth job waits.
C18_FullWithAbandoned ==
    /\ Cardinality(Executing) = 5
    /\ \E j \in Executing : Abandoned(j)
    /\ \E j \in Threads : future[j] = "PENDING" /\ pc[j] = "awaiting"

\* C19: only the handler of an upload ever waits on the conversion pool,
\* and every request that is no upload is answered, whatever the pool does.
C19_LightRequestsAnswered ==
    /\ [](\A t \in 1..IsolationRequests :
             pc[t] = "awaiting" =>
                (req[t].method = "POST" /\ req[t].path \in {"/upload", "/tts", "/stt"}))
    /\ \A t \in (PoolRequests + 1)..IsolationRequests :
          (pc[t] = "accepted") ~> (pc[t] = "done")

\* A request that is no upload has been answered 200 while all five
\* workers are busy and a job waits in the queue.
C19_AnsweredWhileSaturated ==
    \E t \in Threads :
        /\ t > PoolRequests /\ Answered(t) /\ resp[t].status = 200
        /\ Cardinality(Executing) = 5
        /\ \E j \in Threads : future[j] = "PENDING" /\ QueueCount(j) = 1

\* The handlers that have loaded their key set.
Loaded == {t \in Threads : pc[t] \notin {"unborn", "keys_absent", "keys_opened"}}

\* C20: every handler authenticates against the same set of keys, which
\* is the set of keys the key file holds; so the GET, POST and DELETE
\* requests carrying the same Authorization header are all refused 401 or
\* all accepted.
C20_CredentialSetFixed ==
    /\ \A t \in Loaded : valid_api_keys[t] = load_api_keys(api_keys_file.lines)
    /\ \A t, u \in Loaded : valid_api_keys[t] = valid_api_keys[u]
    /\ \A t, u \in Threads :
          ( /\ Answered(t) /\ Answered(u)
            /\ req[t].auth = req[u].auth
            /\ {req[t].method, req[u].method} \subseteq {"GET", "POST", "DELETE"} ) =>
              (resp[t].status = 401 <=> resp[u].status = 401)

\* The order in which a job tries its strategies.
StrategyOrder == <<"sox", "ffmpeg", "copy">>

IsPrefix(s, q) == Len(s) <= Len(q) /\ s = SubSeq(q, 1, Len(s))

\* The message with which a job reports that the strategy succeeded.
SuccessMessage(strategy) ==
    IF strategy = "copy" THEN "Used original file (no conversion)"
    ELSE "Converted with " \o strategy

\* C21: a job tries sox, then ffmpeg, then the copy, each at most once and
\* none after one has succeeded: every new attempt is the next of that
\* order, made by a running job that has no result yet; and the message of
\* a successful job names the last strategy it tried.
C21_StrategiesInOrder ==
    [][\A j \in Threads :
          /\ IsPrefix(tried[j], StrategyOrder)
          /\ execs[j] <= 1
          /\ tried'[j] # tried[j] =>
                /\ IsPrefix(tried[j], tried'[j]) /\ IsPrefix(tried'[j], StrategyOrder)
                /\ result[j] = NoResult
                /\ future[j] \in {"PENDING", "RUNNING"}
                /\ (jpc[j] \in {"sox_run", "ffmpeg_run"} /\ jpc'[j] # "-") =>
                       tried'[j][Len(tried'[j])] \notin installed
          /\ result[j].success =>
                /\ tried[j] # <<>>
                /\ result[j].message = SuccessMessage(tried[j][Len(tried[j])])
          /\ (result'[j].success /\ ~result[j].success) =>
                /\ tried'[j] # <<>>
                /\ result'[j].message = SuccessMessage(tried'[j][Len(tried'[j])])
                /\ jpc[j] = (IF tried'[j][Len(tried'[j])] = "copy" THEN "copy"
                             ELSE tried'[j][Len(tried'[j])] \o "_run")]_vars

\* With both tools installed a job has tried all three strategies and
\* reports that it used the original file.
C21_FellBackToCopy ==
    \E j \in Threads :
        /\ installed = {"sox", "ffmpeg"}
        /\ tried[j] = StrategyOrder
        /\ result[j] = [success |-> TRUE, message |-> "Used original file (no conversion)"]

\* C22: the step in which a caller's await times out answers 408, leaves a
\* running job as it is, on its worker, and cancels a job that has not
\* started; a running job ends only by returning, and then it has returned
\* on its worker and the 408 stands; a cancelled job never runs.
C22_TimeoutLeavesRunningJob ==
    /\ [][\A t \in Threads :
             /\ (pc[t] = "awaiting" /\ pc'[t] = "done" /\ resp'[t].status = 408) =>
                   IF future[t] = "RUNNING"
                   THEN /\ future'[t] = "RUNNING" /\ jpc'[t] = jpc[t]
                        /\ worker_of[t] \in Workers /\ worker_of'[t] = worker_of[t]
                        /\ fs' = fs
                   ELSE future[t] = "PENDING" /\ future'[t] = "CANCELLED"
             /\ future[t] = "RUNNING" =>
                   /\ future'[t] \in {"RUNNING", "FINISHED"}
                   /\ worker_of[t] \in Workers
                   /\ future'[t] = "RUNNING" => worker_of'[t] = worker_of[t]
                   /\ future'[t] = "FINISHED" => result'[t] # NoResult
             /\ Answered(t) => (pc'[t] = "done" /\ resp'[t] = resp[t])
             /\ future[t] = "CANCELLED" =>
                   /\ future'[t] = "CANCELLED"
                   /\ jpc'[t] = "-" /\ execs'[t] = 0 /\ result'[t] = NoResult]_vars
    /\ \A t \in 1..MaxAbandonRequests :
          (Abandoned(t) /\ future[t] = "RUNNING")
              ~> (future[t] = "FINISHED" /\ worker_of[t] = 0 /\ resp[t].status = 408)

\* One caller timed out while sox was converting and the job has since
\* returned success; another timed out before its job started, and the job
\* was cancelled.
C22_AbandonedJobFinished ==
    \E t, u \in Threads :
        /\ Abandoned(t) /\ future[t] = "FINISHED"
        /\ result[t] = [success |-> TRUE, message |-> "Converted with sox"]
        /\ FinalOf(t) \in DOMAIN fs
        /\ Abandoned(u) /\ future[u] = "CANCELLED" /\ execs[u] = 0

\* No upload is being handled and the pool has nothing running or queued.
Quiescent ==
    /\ \A t \in Threads : pc[t] \in {"unborn", "done"}
    /\ PoolQuiet

\* C23: whenever no upload is being handled and the pool has no running
\* or queued job, no storage area holds a temp file.
C23_NoOrphanedTemp ==
    Quiescent => \A p \in DOMAIN fs : ~IsTempName(basename(p))

\* The handlers serving an authenticated DELETE that names the recording
\* plain.wav of Permanent.
RecordingDeleters ==
    {t \in Threads : /\ pc[t] # "unborn" /\ req[t].method = "DELETE" /\ Authenticated(t)
                     /\ delete_path(req[t].path) = path_join(recordings_dir, "plain.wav")}

\* C24: of the DELETE requests for a recording that is present and that no
\* upload re-creates, none is answered 500, at most one is answered 200,
\* and once all are answered exactly one was answered 200 and the others 404.
C24_OneDeleteWins ==
    LET won == {t \in RecordingDeleters : Answered(t) /\ resp[t].status = 200}
    IN  /\ \A t \in RecordingDeleters : Answered(t) => resp[t].status \in {200, 404}
        /\ Cardinality(won) <= 1
        /\ (RecordingDeleters # {} /\ \A t \in RecordingDeleters : Answered(t)) =>
               Cardinality(won) = 1

====
